---------------------------- MODULE Spec2Model ----------------------------
(***************************************************************************)
(* Model of glances/client_browser.py: the Glances client browser.        *)
(*                                                                         *)
(* One control loop (__serve_forever, with __display_server inlined at    *)
(* its blocking points) runs concurrently with one polling thread per     *)
(* host key (__update_stats) and with the Zeroconf listener that adds and *)
(* removes discovered servers.  The server dicts are shared objects: the  *)
(* threads and the control loop read and write the same dict.             *)
(***************************************************************************)
EXTENDS Integers, Sequences, FiniteSets, TLC

(***************************************************************************)
(* Bounds of the model.                                                    *)
(***************************************************************************)
\* largest number of columns returned by static_server.get_columns()
MaxColumns == 2
\* threads the control loop may start during one run
MaxThreads == 2
\* longest static list and longest discovered list given to get_servers_list
\* when it is checked on its own (SpecPure)
MaxList == 2

(***************************************************************************)
(* Values.                                                                 *)
(***************************************************************************)
\* Python's None where a string is expected (password, clear_password)
None == "<None>"
\* screen.active_server is None (an index otherwise, 0-based as in the code)
NoServer == -1
\* thread_list.get(key, None) is None
NoThread == 0

\* the dicts of a run: the static server of the configuration file and the
\* server the Zeroconf listener may publish
StaticIds == {1}
DiscoveredIds == {2}
ServerIds == StaticIds \cup DiscoveredIds
ThreadIds == 1 .. MaxThreads
Keys == {"k1", "k2"}
ClearPasswords == {"secret"}
Statuses == {"UNKNOWN", "ONLINE", "OFFLINE", "PROTECTED", "SNMP"}

\* addressing fields of a server dict; they are never written after creation
Digit(n) == <<"1", "2", "3", "4", "5", "6", "7", "8", "9">>[n]
NameOf(s) == "srv" \o Digit(s)
IpOf(s) == "10.0.0." \o Digit(s)
PortOf(s) == "61209"
UserOf(s) == "glances"

\* GlancesPassword.get_hash: a digest of the clear password
get_hash(clear) == "HASH(" \o clear \o ")"

\* '{}'.format(x) of a password value
Format(x) == IF x = None THEN "None" ELSE x

VARIABLES
    browser,        \* args.browser
    autodiscover,   \* autodiscover_server is not None
    ncols,          \* len(static_server.get_columns())
    passwords,      \* the [passwords] section: server name -> clear password or None
    server,         \* the server dicts: id -> [key, password, status]; the metric
                    \* entries of a dict are written by its thread and read by
                    \* nothing of this file: they are left out
    static_list,    \* static_server.get_servers_list(): sequence of dict ids
    auto_list,      \* autodiscover_server.get_servers_list(): sequence of dict ids
    unpublished,    \* servers the Zeroconf listener has not published yet
    thread_list,    \* __serve_forever's thread_list: key -> thread id or NoThread
    thread,         \* thread id -> [state, srv, col, seen]; seen records what the
                    \* calls of the running __update_stats have raised so far
    pc,             \* position of the control loop
    iter,           \* the list the control loop took from get_servers_list():
                    \* the one the for loop iterates over (line 208), then
                    \* the one given to screen.update (line 219)
    idx,            \* position in that list (1-based)
    active_server,  \* screen.active_server
    is_end,         \* screen.is_end
    selected,       \* __display_server's argument `server` (a dict id, 0 if none)
    clear_password, \* __display_server's local clear_password
    prompted,       \* the password popup was displayed in this __display_server call
    client_password, \* args_server.password given to GlancesClient
    called,         \* SpecPure: the function applied last, with its argument
    ret,            \* SpecPure: what get_servers_list returned
    uri,            \* SpecPure: what __get_uri returned
    column,         \* SpecColumn: a column and the payloads the server returns
    outcome         \* SpecColumn: how the iteration of the column loop ended

vars == <<browser, autodiscover, ncols, passwords, server, static_list, auto_list,
          unpublished, thread_list, thread, pc, iter, idx, active_server, is_end,
          selected, clear_password, prompted, client_password, called, ret, uri,
          column, outcome>>

pure == <<called, ret, uri, column, outcome>>
config == <<browser, autodiscover, ncols, passwords>>
lists == <<static_list, auto_list, unpublished>>
display == <<selected, clear_password, prompted, client_password>>

\* lines 57-69 with the two lists merged the other way round
get_servers_list_DiscoveredFirst ==
    IF browser
    THEN IF autodiscover THEN auto_list \o static_list ELSE static_list
    ELSE <<>>

(***************************************************************************)
(* get_servers_list (lines 57-69): static list, then the discovered one.  *)
(***************************************************************************)
get_servers_list ==
    IF browser
    THEN IF autodiscover THEN static_list \o auto_list ELSE static_list
    ELSE <<>>

\* self.get_servers_list()[i] raises IndexError
IndexError(i) == i < 0 \/ i >= Len(get_servers_list)

\* lines 74-79 without the test of the status at line 75
get_uri_password_NoStatusTest(s) ==
    IF /\ server[s].password # ""
       /\ passwords[NameOf(s)] # None
    THEN get_hash(passwords[NameOf(s)])
    ELSE server[s].password

(***************************************************************************)
(* __get_uri (lines 71-81).  Under status PROTECTED the password of the   *)
(* dict is first replaced by the hash of the preconfigured one, if any.   *)
(***************************************************************************)
get_uri_password(s) ==
    IF /\ server[s].password # ""
       /\ server[s].status = "PROTECTED"
       /\ passwords[NameOf(s)] # None
    THEN get_hash(passwords[NameOf(s)])
    ELSE server[s].password

UriWithPassword(s, pw) ==
    "http://" \o UserOf(s) \o ":" \o Format(pw) \o "@" \o IpOf(s) \o ":" \o PortOf(s)

UriWithoutPassword(s) == "http://" \o IpOf(s) \o ":" \o PortOf(s)

get_uri(s) ==
    IF server[s].password # ""
    THEN UriWithPassword(s, get_uri_password(s))
    ELSE UriWithoutPassword(s)

(***************************************************************************)
(* The polling threads: __update_stats (lines 83-133).                    *)
(***************************************************************************)
NoThreadState == [state |-> "none", srv |-> 0, col |-> 0, seen |-> "none"]
DeadThread == [state |-> "dead", srv |-> 0, col |-> 0, seen |-> "none"]

is_alive(t) == t \in ThreadIds /\ thread[t].state \in {"start", "poll", "protect"}

\* the item names and the keys of a column that the payloads are drawn from
ItemNames == {"eth0", "lo"}
ColumnKeys == {"eth0", "ETH0"}

\* str.lower() on these names
Lower(x) == IF x = "ETH0" THEN "eth0" ELSE x

\* A column and what the server returns for its plugin:
\*   key              column['key'], None when the column has no 'key'
\*   items            the values of i[i['key']] over the list returned by
\*                    getPlugin (read when the column has a key)
\*   value_has_field  the record taken from getPlugin has column['field']
\*   view_keys        the keys of the dict returned by getPluginView (read
\*                    when the column has a key)
\*   view_has_field   the view taken has column['field'] with 'decoration'
Columns ==
    [key : ColumnKeys \cup {None}, items : SUBSET ItemNames,
     value_has_field : BOOLEAN, view_keys : SUBSET ItemNames,
     view_has_field : BOOLEAN]

NoColumn ==
    [key |-> None, items |-> {}, value_has_field |-> FALSE, view_keys |-> {},
     view_has_field |-> FALSE]

\* line 115: the exceptions of the first except clause
Caught(e) == e \in {"KeyError", "IndexError", "Fault"}

\* lines 105-114 when both calls return: the exception raised by the
\* projections, "ok" when none is
\*   line 108  [...][0] raises IndexError when no item has the key
\*             (compared in lower case)
\*   line 109  v_json[field] raises KeyError
\*   line 113  d_json.get(key) is None when the views have no such key
\*             (compared as it is)
\*   line 114  None[field] raises TypeError, d_json[field] raises KeyError
column_lookup(c) ==
    IF c.key # None /\ {i \in c.items : Lower(i) = Lower(c.key)} = {}
    THEN "IndexError"
    ELSE IF ~c.value_has_field
    THEN "KeyError"
    ELSE IF c.key # None /\ c.key \notin c.view_keys
    THEN "TypeError"
    ELSE IF ~c.view_has_field
    THEN "KeyError"
    ELSE "ok"

\* What one iteration of the column loop can meet: both calls and both
\* projections succeed, or one of them raises
\*   LookupError       KeyError or IndexError (caught at line 115)
\*   Fault             xmlrpc Fault (caught at line 115)
\*   OSError           (caught at line 117)
\*   ProtocolError401  xmlrpc ProtocolError with errcode 401 (line 120)
\*   ProtocolError     xmlrpc ProtocolError with another errcode (line 120)
\*   Uncaught          an exception no clause catches, such as the TypeError
\*                     of d_json.get(column['key']) returning None
Outcomes == {"ok", "LookupError", "Fault", "OSError", "ProtocolError401",
             "ProtocolError", "Uncaught"}

\* the status written by the except / else clause of the try (lines 115-131)
StatusAfter(old, kind) ==
    CASE kind = "ok" -> "ONLINE"
      [] kind = "OSError" -> "OFFLINE"
      [] kind = "ProtocolError401" -> "PROTECTED"
      [] kind = "ProtocolError" -> "OFFLINE"
      [] OTHER -> old

\* the password left by the except clause (line 124)
PasswordAfter(old, kind) ==
    IF kind = "ProtocolError401" THEN None ELSE old

\* what the calls of this __update_stats have raised, after one more outcome:
\* "401" once a ProtocolError 401 was raised, else "failure" once an OSError
\* or another ProtocolError was raised, else "none"
SeenAfter(old, kind) ==
    CASE kind = "ProtocolError401" -> "401"
      [] kind \in {"OSError", "ProtocolError"} /\ old = "none" -> "failure"
      [] OTHER -> old

\* the column loop goes on after this outcome (no clause of the try leaves
\* the loop; an exception no clause catches ends the thread)
LoopContinues(kind) == kind # "Uncaught"

\* lines 86-97: build the URI and the ServerProxy
ThreadConnect(t) ==
    /\ thread[t].state = "start"
    /\ LET s == thread[t].srv
       IN /\ server' = [server EXCEPT ![s].password = get_uri_password(s)]
          /\ \E built \in BOOLEAN :
                thread' = [thread EXCEPT ![t] =
                    IF built
                    THEN [state |-> "poll", srv |-> s, col |-> 1, seen |-> "none"]
                    ELSE DeadThread]
    /\ UNCHANGED <<config, lists, thread_list, pc, iter, idx, active_server,
                   is_end, display, pure>>

\* lines 100-131: one iteration of the column loop.  After a 401 the clause
\* of line 120 makes two writes: the iteration stops after the first one
\* (line 124), the status is written by ThreadProtect
ThreadColumn(t) ==
    /\ thread[t].state = "poll"
    /\ thread[t].col <= ncols
    /\ LET s == thread[t].srv
           c == thread[t].col
       IN \E o \in Outcomes :
            IF o = "ProtocolError401"
            THEN /\ server' = [server EXCEPT ![s].password = PasswordAfter(@, o)]
                 /\ thread' = [thread EXCEPT ![t] =
                        [@ EXCEPT !.state = "protect", !.seen = SeenAfter(@, o)]]
            ELSE /\ server' = [server EXCEPT
                        ![s].status = StatusAfter(@, o),
                        ![s].password = PasswordAfter(@, o)]
                 /\ thread' = [thread EXCEPT ![t] =
                        IF LoopContinues(o)
                        THEN [@ EXCEPT !.col = c + 1, !.seen = SeenAfter(@, o)]
                        ELSE DeadThread]
    /\ UNCHANGED <<config, lists, thread_list, pc, iter, idx, active_server,
                   is_end, display, pure>>

\* line 125, after line 124: server['status'] = 'PROTECTED', and the loop
\* goes on with the next column
ThreadProtect(t) ==
    /\ thread[t].state = "protect"
    /\ LET s == thread[t].srv
       IN server' = [server EXCEPT ![s].status = StatusAfter(@, "ProtocolError401")]
    /\ thread' = [thread EXCEPT ![t] =
           [@ EXCEPT !.state = "poll", !.col = thread[t].col + 1]]
    /\ UNCHANGED <<config, lists, thread_list, pc, iter, idx, active_server,
                   is_end, display, pure>>

\* line 133: return server
ThreadReturn(t) ==
    /\ thread[t].state = "poll"
    /\ thread[t].col > ncols
    /\ thread' = [thread EXCEPT ![t] = DeadThread]
    /\ UNCHANGED <<config, lists, server, thread_list, pc, iter, idx,
                   active_server, is_end, display, pure>>

(***************************************************************************)
(* The Zeroconf listener (GlancesAutoDiscoverServer): it appends a new    *)
(* dict when a server is published and deletes the dict of a server that  *)
(* is withdrawn.                                                           *)
(***************************************************************************)
Running == pc \notin {"done", "raised"}

Remove(list, i) == SubSeq(list, 1, i - 1) \o SubSeq(list, i + 1, Len(list))

ZeroconfAdd ==
    /\ autodiscover
    /\ Running
    /\ \E s \in unpublished :
         /\ auto_list' = Append(auto_list, s)
         /\ unpublished' = unpublished \ {s}
    /\ UNCHANGED <<config, server, static_list, thread_list, thread, pc, iter, idx,
                   active_server, is_end, display, pure>>

ZeroconfRemove ==
    /\ autodiscover
    /\ Running
    /\ \E i \in 1 .. Len(auto_list) : auto_list' = Remove(auto_list, i)
    /\ UNCHANGED <<config, server, static_list, unpublished, thread_list, thread, pc,
                   iter, idx, active_server, is_end, display, pure>>

(***************************************************************************)
(* set_in_selected (lines 239-247).  The dict it writes, 0 when the call  *)
(* raises (no autodiscover server, or a position past the discovered      *)
(* list).                                                                  *)
(***************************************************************************)
set_in_selected_target ==
    IF active_server >= Len(static_list)
    THEN IF autodiscover /\ active_server - Len(static_list) < Len(auto_list)
         THEN auto_list[active_server - Len(static_list) + 1]
         ELSE 0
    ELSE static_list[active_server + 1]

\* lines 242-247 without the split between the two lists: the position is
\* always taken in the static list
set_in_selected_StaticOnly(field, value) ==
    IF set_in_selected_target = 0
    THEN server
    ELSE [server EXCEPT ![static_list[1]][field] = value]

set_in_selected(field, value) ==
    IF set_in_selected_target = 0
    THEN server
    ELSE [server EXCEPT ![set_in_selected_target][field] = value]

(***************************************************************************)
(* The control loop: __serve_forever (lines 199-226), called by           *)
(* serve_forever (lines 228-237).                                          *)
(***************************************************************************)
Started == {t \in ThreadIds : thread[t].state # "none"}

\* where the control loop goes after the entry before position i of the list
AfterEntry(list, i) == IF i > Len(list) THEN "screen" ELSE "for"

\* line 211 without the liveness test: a thread is started on every pass
NeedsThread_NoAliveTest(k) == TRUE

\* line 211 without the is_alive test: a thread that has returned is never
\* replaced
NeedsThread_UnregisteredOnly(k) == thread_list[k] = NoThread

\* line 211: a thread is started for the key
NeedsThread(k) == thread_list[k] = NoThread \/ ~is_alive(thread_list[k])

\* lines 206-208: test of the while loop, and the list the for loop iterates
LoopTest ==
    /\ pc = "while"
    /\ IF is_end
       THEN /\ pc' = "join"
            /\ UNCHANGED <<iter, idx>>
       ELSE /\ iter' = get_servers_list
            /\ idx' = 1
            /\ pc' = AfterEntry(get_servers_list, 1)
    /\ UNCHANGED <<config, lists, server, thread_list, thread, active_server, is_end,
                   display, pure>>

\* lines 209-214 run from a timer instead of from the control loop: the
\* first entry of the list is also gone through while the client loop of
\* __display_server runs
ForEntry_FromTimer ==
    /\ pc \in {"for", "session"}
    /\ LET s == IF pc = "for" THEN iter[idx] ELSE get_servers_list[1]
           k == server[s].key
           t == Cardinality(Started) + 1
       IN IF NeedsThread(k)
          THEN /\ t \in ThreadIds
               /\ thread' = [thread EXCEPT ![t] =
                      [state |-> "start", srv |-> s, col |-> 0, seen |-> "none"]]
               /\ thread_list' = [thread_list EXCEPT ![k] = t]
          ELSE UNCHANGED <<thread, thread_list>>
    /\ IF pc = "for"
       THEN /\ idx' = IF idx + 1 > Len(iter) THEN 1 ELSE idx + 1
            /\ iter' = IF idx + 1 > Len(iter) THEN <<>> ELSE iter
            /\ pc' = AfterEntry(iter, idx + 1)
       ELSE UNCHANGED <<idx, iter, pc>>
    /\ UNCHANGED <<config, lists, server, active_server, is_end, display, pure>>

\* lines 209-214: one entry of the list
ForEntry ==
    /\ pc = "for"
    /\ LET k == server[iter[idx]].key
           t == Cardinality(Started) + 1
       IN IF NeedsThread(k)
          THEN /\ t \in ThreadIds
               /\ thread' = [thread EXCEPT ![t] =
                      [state |-> "start", srv |-> iter[idx], col |-> 0,
                       seen |-> "none"]]
               /\ thread_list' = [thread_list EXCEPT ![k] = t]
          ELSE UNCHANGED <<thread, thread_list>>
    /\ idx' = IF idx + 1 > Len(iter) THEN 1 ELSE idx + 1
    /\ iter' = IF idx + 1 > Len(iter) THEN <<>> ELSE iter
    /\ pc' = AfterEntry(iter, idx + 1)
    /\ UNCHANGED <<config, lists, server, active_server, is_end, display, pure>>

\* lines 217-219: no server is selected, get_servers_list() is evaluated and
\* screen.update is called with the list, which it displays; it then waits
\* for a key
ScreenUpdate ==
    /\ pc = "screen"
    /\ active_server = NoServer
    /\ iter' = get_servers_list
    /\ pc' = "update"
    /\ UNCHANGED <<config, lists, server, thread_list, thread, idx, active_server,
                   is_end, display, pure>>

\* line 219, screen.update returns: the user may have selected a row of the
\* list that was displayed, or asked for the end
ScreenUpdateReturns ==
    /\ pc = "update"
    /\ \/ UNCHANGED <<active_server, is_end>>
       \/ /\ \E i \in 0 .. Len(iter) - 1 : active_server' = i
          /\ UNCHANGED is_end
       \/ /\ is_end' = TRUE
          /\ UNCHANGED active_server
    /\ iter' = <<>>
    /\ pc' = "while"
    /\ UNCHANGED <<config, lists, server, thread_list, thread, idx, display, pure>>

\* line 222: resolve the selected index and call __display_server, which
\* displays the 'Connect to' popup (line 142) for one second
DisplayServer ==
    /\ pc = "screen"
    /\ active_server # NoServer
    /\ IF IndexError(active_server)
       THEN /\ pc' = "raised"
            /\ UNCHANGED display
       ELSE /\ selected' = get_servers_list[active_server + 1]
            /\ prompted' = FALSE
            /\ client_password' = None
            /\ clear_password' = None
            /\ pc' = "connect"
    /\ UNCHANGED <<config, lists, server, thread_list, thread, iter, idx,
                   active_server, is_end, pure>>

\* lines 145-147, after the popup: read the password of the dict, look the
\* server up in the password list
DisplayConnect ==
    /\ pc = "connect"
    /\ IF server[selected].password = None
       THEN /\ clear_password' = passwords[NameOf(selected)]
            /\ pc' = "password"
       ELSE /\ clear_password' = None
            /\ pc' = "client"
    /\ UNCHANGED <<config, lists, server, thread_list, thread, iter, idx,
                   active_server, is_end, selected, prompted, client_password,
                   pure>>

\* line 148: the popup is needed
NeedsPrompt ==
    \/ clear_password = None
    \/ server[get_servers_list[active_server + 1]].status = "PROTECTED"

\* lines 155-156: store the hash of the password on the selected server;
\* the control loop goes on at line 159, or set_in_selected raises
StorePassword(clear) ==
    IF clear # None
    THEN /\ server' = set_in_selected("password", get_hash(clear))
         /\ pc' = IF set_in_selected_target = 0 THEN "raised" ELSE "client"
    ELSE /\ pc' = "client"
         /\ UNCHANGED server

\* line 148: test whether the password is to be asked for; when it is, the
\* input popup is displayed (line 151), else lines 155-156 follow
DisplayPassword ==
    /\ pc = "password"
    /\ IF clear_password # None /\ IndexError(active_server)
       THEN /\ pc' = "raised"
            /\ UNCHANGED <<server, display>>
       ELSE IF NeedsPrompt
            THEN /\ prompted' = TRUE
                 /\ pc' = "popup"
                 /\ UNCHANGED <<server, selected, clear_password, client_password>>
            ELSE /\ StorePassword(clear_password)
                 /\ UNCHANGED display
    /\ UNCHANGED <<config, lists, thread_list, thread, iter, idx, active_server,
                   is_end, pure>>

\* lines 151-156: the input popup returns what the user entered (None when
\* the popup is left without a password)
DisplayPopup ==
    /\ pc = "popup"
    /\ \E entered \in ClearPasswords \cup {None} :
         /\ clear_password' = entered
         /\ StorePassword(entered)
    /\ UNCHANGED <<config, lists, thread_list, thread, iter, idx, active_server,
                   is_end, selected, prompted, client_password, pure>>

\* line 197, and the end of the call: its locals are gone
DisplayReturns ==
    /\ selected' = 0
    /\ clear_password' = None
    /\ prompted' = FALSE
    /\ client_password' = None

\* lines 159-169: build the GlancesClient with the password of the dict
DisplayClient ==
    /\ pc = "client"
    /\ client_password' = server[selected].password
    /\ pc' = "login"
    /\ UNCHANGED <<config, lists, server, thread_list, thread, iter, idx,
                   active_server, is_end, selected, clear_password, prompted,
                   pure>>

\* line 172: client.login() returns; when it returns False the failure popup
\* is displayed (line 173)
DisplayLogin ==
    /\ pc = "login"
    /\ \E login \in BOOLEAN : pc' = IF login THEN "session" ELSE "failed"
    /\ UNCHANGED <<config, lists, server, thread_list, thread, iter, idx,
                   active_server, is_end, display, pure>>

\* lines 178 and 197, after the failure popup
DisplayLoginFailed ==
    /\ pc = "failed"
    /\ server' = set_in_selected("status", "OFFLINE")
    /\ IF set_in_selected_target = 0
       THEN /\ pc' = "raised"
            /\ UNCHANGED <<active_server, display>>
       ELSE /\ pc' = "while"
            /\ active_server' = NoServer
            /\ DisplayReturns
    /\ UNCHANGED <<config, lists, thread_list, thread, iter, idx, is_end, pure>>

\* lines 182-197: the client loop returns; the status of the selected server
DisplaySessionEnd ==
    /\ pc = "session"
    /\ \E connection_type \in {"glances", "snmp"} :
         server' = set_in_selected("status",
                      IF connection_type = "snmp" THEN "SNMP" ELSE "ONLINE")
    /\ IF set_in_selected_target = 0
       THEN /\ pc' = "raised"
            /\ UNCHANGED <<active_server, display>>
       ELSE /\ pc' = "while"
            /\ active_server' = NoServer
            /\ DisplayReturns
    /\ UNCHANGED <<config, lists, thread_list, thread, iter, idx, is_end, pure>>

\* lines 225-226, 237: every thread of thread_list is joined, then end()
Join ==
    /\ pc = "join"
    /\ \A k \in Keys : thread_list[k] = NoThread \/ ~is_alive(thread_list[k])
    /\ pc' = "done"
    /\ UNCHANGED <<config, lists, server, thread_list, thread, iter, idx,
                   active_server, is_end, display, pure>>

(***************************************************************************)
(* The specification.                                                      *)
(***************************************************************************)
Names == {NameOf(s) : s \in ServerIds}

NewServer(k) == [key |-> k, password |-> "", status |-> "UNKNOWN"]

Init ==
    /\ browser \in BOOLEAN
    /\ autodiscover \in BOOLEAN
    /\ ncols \in 0 .. MaxColumns
    /\ \E clear \in ClearPasswords \cup {None} : passwords = [n \in Names |-> clear]
    /\ \E keys \in [ServerIds -> Keys] :
         /\ keys[1] = "k1"
         /\ server = [s \in ServerIds |-> NewServer(keys[s])]
    /\ static_list = [i \in StaticIds |-> i]
    /\ auto_list = <<>>
    /\ unpublished = IF autodiscover THEN DiscoveredIds ELSE {}
    /\ thread_list = [k \in Keys |-> NoThread]
    /\ thread = [t \in ThreadIds |-> NoThreadState]
    /\ pc = "while"
    /\ iter = <<>>
    /\ idx = 1
    /\ active_server = NoServer
    /\ is_end = FALSE
    /\ selected = 0
    /\ clear_password = None
    /\ prompted = FALSE
    /\ client_password = None
    /\ called = ""
    /\ ret = <<>>
    /\ uri = ""
    /\ column = NoColumn
    /\ outcome = ""

Next ==
    \/ LoopTest
    \/ ForEntry
    \/ ScreenUpdate
    \/ ScreenUpdateReturns
    \/ DisplayServer
    \/ DisplayConnect
    \/ DisplayPassword
    \/ DisplayPopup
    \/ DisplayClient
    \/ DisplayLogin
    \/ DisplayLoginFailed
    \/ DisplaySessionEnd
    \/ Join
    \/ ZeroconfAdd
    \/ ZeroconfRemove
    \/ \E t \in ThreadIds : ThreadConnect(t)
    \/ \E t \in ThreadIds : ThreadColumn(t)
    \/ \E t \in ThreadIds : ThreadProtect(t)
    \/ \E t \in ThreadIds : ThreadReturn(t)

Spec == Init /\ [][Next]_vars

\* The configurations with one column: every status and password a thread
\* writes is written by a call for one column.
InitOneColumn ==
    /\ Init
    /\ ncols = 1

SpecOneColumn == InitOneColumn /\ [][Next]_vars

\* The scheduling of the threads by the control loop, which reads neither
\* the columns nor the password list: one column, no entry in the list.
InitFair ==
    /\ Init
    /\ ncols = 1
    /\ passwords = [n \in Names |-> None]

\* The control loop is a running thread: its while test and the entries of
\* its for loop never block, so they are taken when they stay enabled.  (The
\* screen, the popups, the login and the session wait for the user or for
\* the network; the polling threads wait for the server.)
SpecFair == InitFair /\ [][Next]_vars /\ WF_vars(LoopTest) /\ WF_vars(ForEntry)

(***************************************************************************)
(* get_servers_list and __get_uri on their own: every pair of lists up to *)
(* MaxList entries, every password and status of the dict, then one call. *)
(***************************************************************************)
SeqsUpTo(S, n) == UNION {[1 .. k -> S] : k \in 0 .. n}
StaticPool == 1 .. MaxList
DiscoveredPool == (MaxList + 1) .. (2 * MaxList)
PasswordValues == {"", None} \cup {get_hash(c) : c \in ClearPasswords}

InitPure ==
    /\ browser \in BOOLEAN
    /\ autodiscover \in BOOLEAN
    /\ ncols = 0
    /\ \E clear \in ClearPasswords \cup {None} : passwords = [n \in Names |-> clear]
    /\ \E pw \in PasswordValues, st \in Statuses :
         server = [s \in ServerIds |-> [key |-> "k1", password |-> pw, status |-> st]]
    /\ static_list \in SeqsUpTo(StaticPool, MaxList)
    /\ auto_list \in IF autodiscover THEN SeqsUpTo(DiscoveredPool, MaxList) ELSE {<<>>}
    /\ unpublished = {}
    /\ thread_list = [k \in Keys |-> NoThread]
    /\ thread = [t \in ThreadIds |-> NoThreadState]
    /\ pc = "pure"
    /\ iter = <<>>
    /\ idx = 1
    /\ active_server = NoServer
    /\ is_end = FALSE
    /\ selected = 0
    /\ clear_password = None
    /\ prompted = FALSE
    /\ client_password = None
    /\ called = ""
    /\ ret = <<>>
    /\ uri = ""
    /\ column = NoColumn
    /\ outcome = ""

CallGetServersList ==
    /\ called = ""
    /\ called' = "get_servers_list"
    /\ ret' = get_servers_list
    /\ UNCHANGED <<config, lists, server, thread_list, thread, pc, iter, idx,
                   active_server, is_end, display, uri, column, outcome>>

CallGetUri ==
    /\ called = ""
    /\ called' = "get_uri"
    /\ \E s \in StaticIds :
         /\ uri' = get_uri(s)
         /\ server' = [server EXCEPT ![s].password = get_uri_password(s)]
    /\ UNCHANGED <<config, lists, thread_list, thread, pc, iter, idx,
                   active_server, is_end, display, ret, column, outcome>>

NextPure == CallGetServersList \/ CallGetUri

SpecPure == InitPure /\ [][NextPure]_vars

(***************************************************************************)
(* One iteration of the column loop on its own, with a server that        *)
(* answers both calls: every column and payload of Columns.               *)
(***************************************************************************)
InitColumn ==
    /\ browser = TRUE
    /\ autodiscover = FALSE
    /\ ncols = 1
    /\ passwords = [n \in Names |-> None]
    /\ \E st \in Statuses :
         server = [s \in ServerIds |-> [key |-> "k1", password |-> "", status |-> st]]
    /\ static_list = <<1>>
    /\ auto_list = <<>>
    /\ unpublished = {}
    /\ thread_list = [k \in Keys |-> IF k = "k1" THEN 1 ELSE NoThread]
    /\ thread = [t \in ThreadIds |->
                   IF t = 1
                   THEN [state |-> "poll", srv |-> 1, col |-> 1, seen |-> "none"]
                   ELSE NoThreadState]
    /\ pc = "pure"
    /\ iter = <<>>
    /\ idx = 1
    /\ active_server = NoServer
    /\ is_end = FALSE
    /\ selected = 0
    /\ clear_password = None
    /\ prompted = FALSE
    /\ client_password = None
    /\ called = ""
    /\ ret = <<>>
    /\ uri = ""
    /\ column \in Columns
    /\ outcome = ""

\* lines 100-131 for thread 1, with the outcome that the payloads give
\* (an exception no clause catches ends the thread)
CallColumn ==
    /\ called = ""
    /\ called' = "column"
    /\ outcome' = column_lookup(column)
    /\ LET o == IF column_lookup(column) = "ok" THEN "ok"
                ELSE IF Caught(column_lookup(column)) THEN "LookupError"
                ELSE "Uncaught"
       IN /\ server' = [server EXCEPT ![1].status = StatusAfter(@, o)]
          /\ thread' = [thread EXCEPT ![1] =
                 IF LoopContinues(o)
                 THEN [@ EXCEPT !.col = 2, !.seen = SeenAfter(@, o)]
                 ELSE DeadThread]
    /\ UNCHANGED <<config, lists, thread_list, pc, iter, idx, active_server,
                   is_end, display, ret, uri, column>>

NextColumn == CallColumn

SpecColumn == InitColumn /\ [][NextColumn]_vars

(***************************************************************************)
(* set_in_selected on its own: a row of the displayed list is selected,    *)
(* line 222 resolves it, then __display_server calls set_in_selected; the *)
(* Zeroconf listener goes on adding and removing servers all along.       *)
(***************************************************************************)
Pool == StaticPool \cup DiscoveredPool

\* the sequences over S in which no element comes twice
Injective(S, n) ==
    {q \in SeqsUpTo(S, n) : \A i, j \in 1 .. Len(q) : q[i] = q[j] => i = j}

Range(q) == {q[i] : i \in 1 .. Len(q)}

InitSelected ==
    /\ browser = TRUE
    /\ autodiscover \in BOOLEAN
    /\ ncols = 0
    /\ passwords = [n \in Names |-> None]
    /\ \E st \in Statuses :
         server = [s \in Pool |-> [key |-> NameOf(s), password |-> "", status |-> st]]
    /\ static_list \in Injective(StaticPool, MaxList)
    /\ auto_list \in IF autodiscover THEN Injective(DiscoveredPool, MaxList) ELSE {<<>>}
    /\ unpublished = IF autodiscover THEN DiscoveredPool \ Range(auto_list) ELSE {}
    /\ thread_list = [k \in Keys |-> NoThread]
    /\ thread = [t \in ThreadIds |-> NoThreadState]
    /\ pc = "pure"
    /\ iter = <<>>
    /\ idx = 1
    /\ active_server = NoServer
    /\ is_end = FALSE
    /\ selected = 0
    /\ clear_password = None
    /\ prompted = FALSE
    /\ client_password = None
    /\ called = ""
    /\ ret = <<>>
    /\ uri = ""
    /\ column = NoColumn
    /\ outcome = ""

\* line 219: get_servers_list() is evaluated and screen.update is called with
\* the list
CallScreenUpdate ==
    /\ called = ""
    /\ called' = "update"
    /\ iter' = get_servers_list
    /\ UNCHANGED <<config, lists, server, thread_list, thread, pc, idx,
                   active_server, is_end, display, ret, uri, column, outcome>>

\* line 219, screen.update returns: the user has selected a row of the list
\* that was displayed; the next pass of the while loop (lines 206-214) follows
CallScreenUpdateReturns ==
    /\ called = "update"
    /\ called' = "selected"
    /\ \E i \in 0 .. Len(iter) - 1 : active_server' = i
    /\ iter' = <<>>
    /\ UNCHANGED <<config, lists, server, thread_list, thread, pc, idx, is_end,
                   display, ret, uri, column, outcome>>

\* line 222: the selected index is resolved in the list as it is now, and
\* __display_server is called with the dict, or the indexing raises
CallDisplayServer ==
    /\ called = "selected"
    /\ called' = "display_server"
    /\ IF IndexError(active_server)
       THEN /\ pc' = "raised"
            /\ UNCHANGED selected
       ELSE /\ selected' = get_servers_list[active_server + 1]
            /\ UNCHANGED pc
    /\ UNCHANGED <<config, lists, server, thread_list, thread, iter, idx,
                   active_server, is_end, clear_password, prompted,
                   client_password, ret, uri, column, outcome>>

\* lines 178, 192, 194: set_in_selected('status', value); ret is the dict
\* written, 0 when the call raises
CallSetInSelected ==
    /\ called = "display_server"
    /\ Running
    /\ called' = "set_in_selected"
    /\ ret' = <<set_in_selected_target>>
    /\ \E value \in {"OFFLINE", "ONLINE", "SNMP"} :
         server' = set_in_selected("status", value)
    /\ pc' = IF set_in_selected_target = 0 THEN "raised" ELSE pc
    /\ UNCHANGED <<config, lists, thread_list, thread, iter, idx, active_server,
                   is_end, display, uri, column, outcome>>

NextSelected ==
    \/ CallScreenUpdate
    \/ CallScreenUpdateReturns
    \/ CallDisplayServer
    \/ CallSetInSelected
    \/ ZeroconfAdd
    \/ ZeroconfRemove

SpecSelected == InitSelected /\ [][NextSelected]_vars

(***************************************************************************)
(* Properties.                                                             *)
(***************************************************************************)
LiveThreads(k) == {t \in ThreadIds : is_alive(t) /\ server[thread[t].srv].key = k}

\* the thread is at line 133: every column was gone through, it returns
AtReturn(t) == thread[t].state = "poll" /\ thread[t].col > ncols

\* the control loop takes a step (an entry of the for loop that is not the
\* last one leaves pc as it is and moves idx)
LoopSteps == pc' # pc \/ idx' # idx

\* the control loop is at line 145, in __display_server with the dict of
\* the selected server
Selecting == pc = "connect"

\* C1: at every moment, each key has at most one live polling thread, also
\* when two entries of the list carry the same key.
C1_OneLiveThreadPerKey == \A k \in Keys : Cardinality(LiveThreads(k)) <= 1

\* C1 witness: both entries of the list carry the same key, a first thread of
\* that key is dead and a second one is alive.
C1_Witness ==
    /\ Len(get_servers_list) = 2
    /\ server[1].key = server[2].key
    /\ \E t1, t2 \in ThreadIds : thread[t1].state = "dead" /\ is_alive(t2)

\* C2: when a column call of a poll cycle raised a 401, the dict has status
\* PROTECTED and password None when the cycle returns, whatever the other
\* columns met.
C2_ProtectedAfter401 ==
    \A t \in ThreadIds :
        AtReturn(t) /\ thread[t].seen = "401" =>
            /\ server[thread[t].srv].status = "PROTECTED"
            /\ server[thread[t].srv].password = None

\* C3: when the ServerProxy was built and no column call raised an OSError
\* or a ProtocolError, the status is ONLINE when the cycle returns, also with
\* every column skipped by a lookup error and with no column at all.
C3_OnlineWithoutFailure ==
    \A t \in ThreadIds :
        AtReturn(t) /\ thread[t].seen = "none" =>
            server[thread[t].srv].status = "ONLINE"

\* C4: when a column call raised an OSError or a ProtocolError other than 401
\* (and none raised 401), the status is OFFLINE when the cycle returns,
\* whatever the later columns met.
C4_OfflineAfterFailure ==
    \A t \in ThreadIds :
        AtReturn(t) /\ thread[t].seen = "failure" =>
            server[thread[t].srv].status = "OFFLINE"

\* C5: no exception escapes the main loop when the selected index does not
\* resolve in the current list; the loop goes on until end is requested.
C5_NoExceptionEscapes == pc # "raised"

\* C6: a selected server whose password is "" or None, with no entry in the
\* password list, goes through the password popup before the client is built,
\* and a password entered in the popup is on the dict of that server, as its
\* hash, when the popup is left.
C6_PromptsWhenEmptyOrNone ==
    [][ /\ ( /\ Selecting
             /\ server[selected].password \in {"", None}
             /\ passwords[NameOf(selected)] = None
             /\ LoopSteps )
           => pc' = "password"
        /\ ( /\ pc = "password"
             /\ clear_password = None
             /\ LoopSteps )
           => prompted' /\ pc' = "popup"
        /\ ( /\ pc = "popup"
             /\ passwords[NameOf(selected)] = None
             /\ LoopSteps
             /\ clear_password' # None )
           => server'[selected].password = get_hash(clear_password')
      ]_vars

\* C7: a selected server that a 401 left with status PROTECTED, with an
\* entry in the password list, goes to the password resolution whatever poll
\* cycles ran since the 401, and the resolution of a server whose password a
\* 401 cleared displays the popup even though the password list has an entry.
C7_PromptsAfter401 ==
    [][ /\ ( /\ Selecting
             /\ server[selected].status = "PROTECTED"
             /\ passwords[NameOf(selected)] # None
             /\ LoopSteps )
           => pc' = "password"
        /\ ( /\ pc = "password"
             /\ clear_password # None
             /\ LoopSteps )
           => prompted' /\ pc' = "popup"
      ]_vars

\* C8: the URI embeds user and password exactly when the dict holds a
\* password other than "" and None; otherwise it is http://ip:port.
C8_CredentialsIffPassword ==
    called = "get_uri" =>
        \A s \in StaticIds :
            uri = IF server[s].password \notin {"", None}
                  THEN UriWithPassword(s, server[s].password)
                  ELSE UriWithoutPassword(s)

\* the discovered entries of the merged list, none when discovery is disabled
DiscoveredPart == IF autodiscover THEN auto_list ELSE <<>>

\* ret is the static entries in their order, then the discovered ones in theirs
StaticThenDiscovered ==
    /\ Len(ret) = Len(static_list) + Len(DiscoveredPart)
    /\ \A i \in 1 .. Len(static_list) : ret[i] = static_list[i]
    /\ \A j \in 1 .. Len(DiscoveredPart) : ret[Len(static_list) + j] = DiscoveredPart[j]

\* C9 as stated: for every static and discovered list, get_servers_list
\* returns the static entries in their order, then the discovered ones.
C9_StaticThenDiscovered == called = "get_servers_list" => StaticThenDiscovered

\* C9 amended: so it is when args.browser is set; otherwise the list returned
\* is empty.
C9_StaticThenDiscoveredInBrowser ==
    called = "get_servers_list" =>
        IF browser THEN StaticThenDiscovered ELSE ret = <<>>

\* C9 witness: two static and two discovered entries were merged.
C9_Witness ==
    /\ called = "get_servers_list"
    /\ browser
    /\ Len(static_list) = 2
    /\ Len(auto_list) = 2
    /\ Len(ret) = 4

\* C10: once serve_forever has returned or raised, no polling thread is alive.
C10_NoThreadAfterExit ==
    pc \in {"done", "raised"} => \A t \in ThreadIds : ~is_alive(t)

\* the polling thread of dict s takes a step from the given state
OwnThreadSteps(s, state) ==
    \E t \in ThreadIds :
        /\ thread[t].state = state
        /\ thread[t].srv = s
        /\ thread'[t] # thread[t]

\* the control loop takes a step of __display_server in which
\* set_in_selected is called: line 156 when no popup is needed (the step
\* from line 148 that goes on to line 159) or when the popup returned a
\* password, line 178 after the failure popup, lines 192-194 after the session
CallsSetInSelected ==
    /\ LoopSteps
    /\ \/ pc = "password" /\ pc' = "client"
       \/ pc = "popup" /\ clear_password' # None
       \/ pc \in {"failed", "session"}

\* the control loop takes a step of __display_server, from one of the given
\* positions, that calls set_in_selected on dict s
RouterWrites(s, from) ==
    /\ pc \in from
    /\ CallsSetInSelected
    /\ s = set_in_selected_target

\* C11 as stated: the status of a dict is changed by the polling thread of
\* that dict only; the control loop never changes it.
C11_StatusByOwnThreadOnly ==
    [][ \A s \in ServerIds :
          server'[s].status # server[s].status =>
              \/ OwnThreadSteps(s, "poll")
              \/ OwnThreadSteps(s, "protect") ]_vars

\* C11 amended: the status of a dict is changed by the column loop of its own
\* polling thread, or by the control loop through set_in_selected at the end
\* of a login attempt or of a session, on the dict at the selected position.
C11_StatusByOwnThreadOrRouter ==
    [][ \A s \in ServerIds :
          server'[s].status # server[s].status =>
              \/ OwnThreadSteps(s, "poll")
              \/ OwnThreadSteps(s, "protect")
              \/ RouterWrites(s, {"failed", "session"}) ]_vars

\* C11 witness: the control loop has written SNMP, a status no thread writes.
C11_Witness == \E s \in ServerIds : server[s].status = "SNMP"

\* C12 as stated: the password of a dict is changed by the control loop only;
\* a polling thread never changes it.
C12_PasswordByRouterOnly ==
    [][ \A s \in ServerIds :
          server'[s].password # server[s].password =>
              RouterWrites(s, {"password", "popup"}) ]_vars

\* C12 amended: the password of a dict is changed by the control loop (the
\* hash of the resolved password, line 156), and by its own polling thread:
\* set to None after a 401 (line 124, before the status is set to PROTECTED
\* at line 125), and to the hash of the preconfigured
\* password by __get_uri under status PROTECTED (line 79).
C12_PasswordByRouterOrOwnThread ==
    [][ \A s \in ServerIds :
          server'[s].password # server[s].password =>
              \/ /\ RouterWrites(s, {"password", "popup"})
                 /\ server'[s].password = get_hash(clear_password')
              \/ /\ OwnThreadSteps(s, "poll")
                 /\ server'[s].password = None
                 /\ \E t \in ThreadIds :
                       thread[t].srv = s /\ thread'[t].state = "protect"
              \/ /\ OwnThreadSteps(s, "start")
                 /\ server[s].status = "PROTECTED"
                 /\ server'[s].password = get_hash(passwords[NameOf(s)]) ]_vars

\* C12 witness: a polling thread is running on the password that __get_uri
\* took from the password list, with no password entered in the popup.
C12_Witness ==
    \E t \in ThreadIds :
        /\ thread[t].state = "poll"
        /\ server[thread[t].srv].password = get_hash("secret")
        /\ passwords[NameOf(thread[t].srv)] = "secret"
        /\ pc = "screen"
        /\ active_server = NoServer

\* C13: when login() returns false the client loop is not run: OFFLINE is
\* written to the dict of the selected server and the selection is cleared,
\* so that the control loop is back at its while test.
C13_FailedLoginWritesOffline ==
    [][ ( /\ pc = "failed"
          /\ LoopSteps )
        => /\ pc' = "while"
           /\ active_server' = NoServer
           /\ server'[selected].status = "OFFLINE" ]_vars

\* C14: when the client loop returns, SNMP or ONLINE is written to the dict
\* of the selected server and the selection is cleared before the next pass
\* of the control loop.
C14_SessionEndWritesStatus ==
    [][ ( /\ pc = "session"
          /\ LoopSteps )
        => /\ pc' = "while"
           /\ active_server' = NoServer
           /\ server'[selected].status \in {"SNMP", "ONLINE"} ]_vars

\* C15: in one call of __update_stats, once a column call has raised an
\* OSError or a ProtocolError (401 or not), the loop makes no call for a
\* later column.
C15_NoCallAfterFailure ==
    [][ \A t \in ThreadIds :
          ( /\ thread[t].state = "poll"
            /\ thread[t].seen # "none"
            /\ thread[t].col <= ncols )
          => thread'[t] = thread[t] ]_vars

\* C16: each pass of the while loop, while end is not requested, takes the
\* current list and goes through every entry of it; at an entry whose key has
\* no registered thread, or a registered thread that is no longer alive, a
\* new thread bound to that entry is started and registered under the key;
\* at any other entry no thread is started.  (So a server that stays in the
\* list gets a new thread on the first pass after its thread has returned.)
C16_StartsMissingThreads ==
    [][ /\ ( pc = "while" /\ LoopSteps /\ ~is_end )
           => /\ iter' = get_servers_list
              /\ idx' = 1
              /\ pc' = IF get_servers_list = <<>> THEN "screen" ELSE "for"
        /\ ( pc = "for" /\ LoopSteps )
           => LET s == iter[idx]
                  k == server[s].key
                  t == thread_list'[k]
              IN /\ IF thread_list[k] = NoThread \/ ~is_alive(thread_list[k])
                    THEN /\ t \in ThreadIds
                         /\ thread[t].state = "none"
                         /\ thread'[t].state = "start"
                         /\ thread'[t].srv = s
                         /\ \A u \in ThreadIds \ {t} : thread'[u] = thread[u]
                    ELSE /\ thread_list' = thread_list
                         /\ thread' = thread
                 /\ IF idx < Len(iter)
                    THEN pc' = "for" /\ idx' = idx + 1 /\ iter' = iter
                    ELSE pc' = "screen"
      ]_vars

\* the dict is in the list the next pass of the control loop will take
InList(s) == \E i \in 1 .. Len(get_servers_list) : get_servers_list[i] = s

\* C16, under fair scheduling of the control loop: when a pass starts while
\* end is not requested, and the thread registered for a server of the list
\* has returned, a new thread bound to that server is started and registered
\* (unless the server leaves the list, or the run has used its MaxThreads
\* threads).  The key is that of this server only, as the data model has it.
C16_PolledAgain ==
    \A s \in ServerIds :
        ( /\ pc = "while"
          /\ ~is_end
          /\ InList(s)
          /\ \A r \in ServerIds \ {s} : server[r].key # server[s].key
          /\ \E t \in ThreadIds :
                /\ thread_list[server[s].key] = t
                /\ thread[t].state = "dead" )
        ~> ( \/ \E u \in ThreadIds :
                  /\ thread_list[server[s].key] = u
                  /\ thread[u].state = "start"
                  /\ thread[u].srv = s
             \/ ~InList(s)
             \/ Cardinality(Started) = MaxThreads )

\* C16, both parts
C16_RestartsThreads == C16_StartsMissingThreads /\ C16_PolledAgain

\* C16 witness: the static server is the only one of the list, its first
\* thread has returned, and a second thread was started for it and is
\* registered under its key.
C16_Witness ==
    /\ ~autodiscover
    /\ \E t1, t2 \in ThreadIds :
         /\ thread[t1].state = "dead"
         /\ thread[t2].state = "start"
         /\ thread[t2].srv = 1
         /\ thread_list[server[1].key] = t2

\* the column met a lookup error: a projection of lines 108-114 found no
\* item, no key or no field
LookupFailed == called = "column" /\ outcome # "ok"

\* C17: an iteration of the column loop that meets a lookup error (a missing
\* key or field, or no item selected for the key of the column) leaves the
\* thread alive in the loop, at the next column.
C17_LookupErrorContained ==
    LookupFailed => thread[1].state = "poll" /\ thread[1].col = 2

\* C18: when __display_server has resolved a password (from the password
\* list or from the popup) and stored its hash on the selected dict, the
\* GlancesClient is built with that hash: no polling thread changes the
\* password of the dict between line 156 and line 168.
C18_ClientBuiltWithResolvedPassword ==
    [][ ( /\ pc = "client"
          /\ LoopSteps
          /\ clear_password # None )
        => client_password' = get_hash(clear_password) ]_vars

\* C19: the status that __display_server writes at the end of a failed login
\* or of a session lands on the dict with the key of the server the session
\* was opened on, whatever servers were added or removed meanwhile.
C19_WriteLandsOnSelected ==
    called = "set_in_selected" /\ ret # <<0>> =>
        server[ret[1]].key = server[selected].key

\* a polling thread is started
ThreadStarts ==
    \E t \in ThreadIds : thread[t].state = "none" /\ thread'[t].state = "start"

\* C20 as stated: from the selection of a server (active_server is set)
\* until the selection is cleared, no polling thread is started.
C20_NoThreadWhileSelected ==
    [][ active_server # NoServer => ~ThreadStarts ]_vars

\* C20 amended: from the call of __display_server (line 222) until the
\* selection is cleared, no polling thread is started; the threads started
\* while a server is selected are started by the for loop of the pass that
\* runs between the selection in screen.update and that call.
C20_NoThreadDuringDisplayServer ==
    [][ /\ pc \in {"connect", "password", "popup", "client", "login", "failed",
                   "session"} => ~ThreadStarts
        /\ ( ThreadStarts /\ active_server # NoServer )
           => pc = "for" /\ selected = 0 ]_vars

\* C20 witness: the client loop of __display_server is running, the thread
\* registered for the static server has returned, and a thread could be
\* started.
C20_Witness ==
    /\ pc = "session"
    /\ thread_list[server[1].key] # NoThread
    /\ ~is_alive(thread_list[server[1].key])
    /\ Cardinality(Started) < MaxThreads

=============================================================================
